---- MODULE Spec2Model ----
(***************************************************************************)
(* A model of zipreader.go: the ZipReader facade over a ZIP archive that   *)
(* holds a shapefile (.shp) and an optional attribute table (.dbf).        *)
(*                                                                         *)
(* Strings are sequences of one-character strings, so that suffix tests,   *)
(* extension stripping and fmt.Errorf formatting are computed character by *)
(* character, as the Go code computes them.                                *)
(***************************************************************************)
EXTENDS Integers, Sequences, FiniteSets, TLC

(***************************************************************************)
(* Bounds of the model.                                                    *)
(***************************************************************************)
\* Largest number of entries of the archive.
MaxEntries == 2
\* Largest number of container handles, and of facades, one behaviour opens.
MaxOpens == 1
\* Largest number of Close calls on one facade.
MaxCloses == 2
\* Largest number of records the Sequential Reader delivers.
MaxRecords == 1

(***************************************************************************)
(* Strings.                                                                *)
(***************************************************************************)
ShpExt == <<".", "s", "h", "p">>
DbfExt == <<".", "d", "b", "f">>

A_SHP == <<"a", ".", "s", "h", "p">>
B_SHP == <<"b", ".", "s", "h", "p">>
A_DBF == <<"a", ".", "d", "b", "f">>
DX_A == <<"d", ".", "x", "/", "a">>

\* The names an archive entry can have.
EntryNames == {A_SHP, B_SHP, A_DBF, DX_A}
\* The names OpenShapeFromZip is asked for: every entry name, and a bare
\* extension that is a suffix of some entry names but equal to none.
RequestNames == EntryNames \cup {ShpExt}

\* strings.HasSuffix(s, suffix)
HasSuffix(s, suffix) ==
    /\ Len(s) >= Len(suffix)
    /\ SubSeq(s, Len(s) - Len(suffix) + 1, Len(s)) = suffix

\* strings.TrimSuffix(s, suffix)
TrimSuffix(s, suffix) ==
    IF HasSuffix(s, suffix) THEN SubSeq(s, 1, Len(s) - Len(suffix)) ELSE s

\* path.Ext(name): the suffix beginning at the final dot in the final
\* slash-separated element of name; empty if there is no dot.
\*   for i := len(path) - 1; i >= 0 && path[i] != '/'; i-- {
\*       if path[i] == '.' { return path[i:] } }
\*   return ""
RECURSIVE ExtFrom(_, _)
ExtFrom(name, i) ==
    IF i < 1 \/ name[i] = "/" THEN <<>>
    ELSE IF name[i] = "." THEN SubSeq(name, i, Len(name))
    ELSE ExtFrom(name, i - 1)

Ext(name) == ExtFrom(name, Len(name))

\* strings.Contains(s, sub)
Contains(s, sub) ==
    \E i \in 0..(Len(s) - Len(sub)) : SubSeq(s, i + 1, i + Len(sub)) = sub

(***************************************************************************)
(* Errors.  An error is a record: its kind, and the text Error() returns   *)
(* (for the errors of the open functions the text is the part of the       *)
(* message that varies: the name given to %s).                             *)
(***************************************************************************)
Nil == [kind |-> "nil", text |-> <<>>]

\* zip.OpenReader / zip.NewReader failed: not a readable archive.
ErrContainerOpen == [kind |-> "ContainerOpenFailed", text |-> <<>>]
\* ioutil.ReadAll failed on the caller's stream.
ErrStreamRead == [kind |-> "StreamReadFailed", text |-> <<>>]
\* zip.File.Open failed on an entry that exists.
ErrEntryOpen == [kind |-> "EntryOpenFault", text |-> <<>>]
\* fmt.Errorf("No such file in archive: %s", name)
ErrNoSuchFile(name) == [kind |-> "NoSuchFile", text |-> name]
\* fmt.Errorf("archive does not contain a .shp file")
ErrNoShp == [kind |-> "NoShp", text |-> <<>>]
\* fmt.Errorf("archive does contain multiple .shp files")
ErrMultipleShp == [kind |-> "MultipleShp", text |-> <<>>]
\* os.File.Close on a file that is closed already (os.ErrClosed).
ErrClosed == [kind |-> "close", text |-> <<"c">>]

CloseErr(text) == [kind |-> "close", text |-> text]

\* The outcomes of the Sequential Reader's Close.
SRCloseOutcomes == {Nil, CloseErr(<<"r">>), CloseErr(<<"%", "d">>)}
\* The outcomes of closing an open container handle.
FileCloseOutcomes == {Nil, CloseErr(<<"z">>)}

(***************************************************************************)
(* fmt.Errorf(format) with no arguments.  Text is copied up to a '%'; a    *)
(* '%' starts a verb: flags, width and precision are skipped, then "%%"    *)
(* writes '%', any other verb writes "%!v(MISSING)" (there is no argument  *)
(* for it), and a format that ends inside a verb writes "%!(NOVERB)".      *)
(* A width or precision whose digits run on after the number read so far   *)
(* has passed 1e6 makes parsenum give up and skip to the end of the        *)
(* format, which then ends inside the verb.                                *)
(* The characters '*' and '[' (width and index taken from arguments) do    *)
(* not occur in the messages of this model.                                *)
(***************************************************************************)
FlagChars == {"#", "0", "+", "-", " "}
DigitChars == {"0", "1", "2", "3", "4", "5", "6", "7", "8", "9"}
NoVerbString == <<"%", "!", "(", "N", "O", "V", "E", "R", "B", ")">>
MissingString == <<"(", "M", "I", "S", "S", "I", "N", "G", ")">>

RECURSIVE SkipChars(_, _, _)
SkipChars(format, i, chars) ==
    IF i <= Len(format) /\ format[i] \in chars
    THEN SkipChars(format, i + 1, chars)
    ELSE i

\* The value of a digit character.
DigitValue(c) ==
    CHOOSE d \in 0..9 : <<"0", "1", "2", "3", "4", "5", "6", "7", "8", "9">>[d + 1] = c

\* tooLarge(x): const max int = 1e6; return x > max || x < -max
tooLarge(x) == x > 1000000 \/ x < -1000000

\* parsenum(s, start, end): the position after the number that starts at i,
\* num being the value of the digits read so far; past the end of the format
\* on overflow.
\*   for newi = start; newi < end && '0' <= s[newi] && s[newi] <= '9'; newi++ {
\*       if tooLarge(num) { return 0, false, end }
\*       num = num*10 + int(s[newi]-'0') }
RECURSIVE parsenum(_, _, _)
parsenum(format, i, num) ==
    IF i > Len(format) \/ format[i] \notin DigitChars THEN i
    ELSE IF tooLarge(num) THEN Len(format) + 1
    ELSE parsenum(format, i + 1, num * 10 + DigitValue(format[i]))

\* The position of the verb character of the verb whose '%' is at i.
VerbPos(format, i) ==
    LET afterFlags == SkipChars(format, i + 1, FlagChars)
        afterWidth == parsenum(format, afterFlags, 0)
    IN  IF afterWidth <= Len(format) /\ format[afterWidth] = "."
        THEN parsenum(format, afterWidth + 1, 0)
        ELSE afterWidth

RECURSIVE doPrintf(_, _)
doPrintf(format, i) ==
    IF i > Len(format) THEN <<>>
    ELSE IF format[i] # "%" THEN <<format[i]>> \o doPrintf(format, i + 1)
    ELSE LET v == VerbPos(format, i)
         IN  IF v > Len(format) THEN NoVerbString
             ELSE IF format[v] = "%" THEN <<"%">> \o doPrintf(format, v + 1)
             ELSE <<"%", "!", format[v]>> \o MissingString
                      \o doPrintf(format, v + 1)

Errorf(format) == CloseErr(doPrintf(format, 1))

(***************************************************************************)
(* The archive: a sequence of entries (zip.Reader.File), each with its     *)
(* name and whether zip.File.Open succeeds on it.                          *)
(***************************************************************************)
Entries == [Name : EntryNames, ok : BOOLEAN]
Archives == UNION {[1..n -> Entries] : n \in 0..MaxEntries}

GoodPath == "shapes.zip"
BadPath == "missing.zip"
Paths == {GoodPath, BadPath}

\* What the caller's stream holds, for OpenZipReader.
Streams == {"zip", "garbage", "unreadable"}

\* A nil *zip.ReadCloser, a nil io.ReadCloser.
NoHandle == 0

VARIABLES
    archive,    \* the archive stored at GoodPath, and held by a "zip" stream
    handles,    \* every handle opened so far: container handles and streams
    facades,    \* every ZipReader returned so far
    history,    \* per facade: the call that built it, and whether its Next
                \* has returned false (observations, not program state)
    ret         \* the last call and what it returned

vars == <<archive, handles, facades, history, ret>>

\* The archive zip.OpenReader(path) reads, if it succeeds.
Opens(path) == path = GoodPath

\* The entries a *zip.ReadCloser / io.ReadCloser handle is open on: 0 for a
\* container handle.  closes counts the Close calls made on the handle.
ContainerHandle == [kind |-> "container", entry |-> 0, closes |-> 0]
StreamHandle(e) == [kind |-> "stream", entry |-> e, closes |-> 0]

NumContainers == Cardinality({h \in DOMAIN handles : handles[h].kind = "container"})


(***************************************************************************)
(* Entry resolution: pure functions of the archive.                        *)
(***************************************************************************)
Min(S) == CHOOSE x \in S : \A y \in S : x <= y

\* shapesInZip taking attribute tables for shapes as well.
shapesInZipOrDbf(z) ==
    SelectSeq([i \in 1..Len(z) |-> i],
              LAMBDA i : HasSuffix(z[i].Name, ShpExt) \/ HasSuffix(z[i].Name, DbfExt))

\* shapesInZip: the entries whose name ends in ".shp", in archive order
\* (each *zip.File is its index in z).
shapesInZip(z) ==
    SelectSeq([i \in 1..Len(z) |-> i], LAMBDA i : HasSuffix(z[i].Name, ShpExt))

\* openFromZIP matching the end of the entry's name instead of all of it.
openFromZIPBySuffix(z, name) ==
    LET found == {i \in DOMAIN z : HasSuffix(z[i].Name, name)}
    IN  IF found = {}
        THEN [stream |-> NoHandle, err |-> ErrNoSuchFile(name)]
        ELSE IF z[Min(found)].ok
        THEN [stream |-> Min(found), err |-> Nil]
        ELSE [stream |-> NoHandle, err |-> ErrEntryOpen]

\* openFromZIP: opens the first entry whose name is exactly name.  stream is
\* the entry the returned io.ReadCloser reads, NoHandle for a nil one.
openFromZIP(z, name) ==
    LET found == {i \in DOMAIN z : z[i].Name = name}
    IN  IF found = {}
        THEN [stream |-> NoHandle, err |-> ErrNoSuchFile(name)]
        ELSE IF z[Min(found)].ok
        THEN [stream |-> Min(found), err |-> Nil]
        ELSE [stream |-> NoHandle, err |-> ErrEntryOpen]

\* The name of the companion looked up by loadSHPAndMaybeDBF.
dbfNameOfShp(name) == TrimSuffix(name, ShpExt) \o DbfExt

\* The companion's name with the extension appended to the whole name.
dbfNameOfNamedUntrimmed(name) == name \o DbfExt

\* The name of the companion looked up by OpenShapeFromZip.
dbfNameOfNamed(name) == TrimSuffix(name, Ext(name)) \o DbfExt

\* loadSHPAndMaybeDBF without the test for more than one shape: it takes
\* the first.
loadSHPAndMaybeDBFFirst(z) ==
    LET shapeFiles == shapesInZip(z)
        none == [err |-> Nil, shp |-> NoHandle, dbf |-> NoHandle]
    IN  IF Len(shapeFiles) = 0 THEN [none EXCEPT !.err = ErrNoShp]
        ELSE LET shp == openFromZIP(z, z[shapeFiles[1]].Name)
                 dbf == openFromZIP(z, dbfNameOfShp(z[shapeFiles[1]].Name))
             IN  IF shp.err # Nil THEN [none EXCEPT !.err = shp.err]
                 ELSE [err |-> Nil, shp |-> shp.stream, dbf |-> dbf.stream]

\* loadSHPAndMaybeDBF, up to the construction of the Sequential Reader: the
\* error it returns, and the entries of the streams it opened.
loadSHPAndMaybeDBF(z) ==
    LET shapeFiles == shapesInZip(z)
        none == [err |-> Nil, shp |-> NoHandle, dbf |-> NoHandle]
    IN  IF Len(shapeFiles) = 0 THEN [none EXCEPT !.err = ErrNoShp]
        ELSE IF Len(shapeFiles) > 1 THEN [none EXCEPT !.err = ErrMultipleShp]
        ELSE LET shp == openFromZIP(z, z[shapeFiles[1]].Name)
                 dbf == openFromZIP(z, dbfNameOfShp(z[shapeFiles[1]].Name))
             IN  IF shp.err # Nil THEN [none EXCEPT !.err = shp.err]
                 ELSE [err |-> Nil, shp |-> shp.stream, dbf |-> dbf.stream]

\* OpenShapeFromZip returning the companion's error instead of dropping it.
openNamedStrict(z, name) ==
    LET shp == openFromZIP(z, name)
        dbf == openFromZIP(z, dbfNameOfNamed(name))
        none == [err |-> Nil, shp |-> NoHandle, dbf |-> NoHandle]
    IN  IF shp.err # Nil THEN [none EXCEPT !.err = shp.err]
        ELSE IF dbf.err # Nil THEN [none EXCEPT !.err = dbf.err]
        ELSE [err |-> Nil, shp |-> shp.stream, dbf |-> dbf.stream]

\* OpenShapeFromZip after the container is open: the same for a given name.
openNamed(z, name) ==
    LET shp == openFromZIP(z, name)
        dbf == openFromZIP(z, dbfNameOfNamed(name))
        none == [err |-> Nil, shp |-> NoHandle, dbf |-> NoHandle]
    IN  IF shp.err # Nil THEN [none EXCEPT !.err = shp.err]
        ELSE [err |-> Nil, shp |-> shp.stream, dbf |-> dbf.stream]

(***************************************************************************)
(* The Sequential Reader (sequentialreader.go is not part of the sources;  *)
(* this is its contract).  It holds the two streams, the number of records *)
(* read, whether the end of the stream was met, and the last error.        *)
(***************************************************************************)
ErrDecode == [kind |-> "DecodeFault", text |-> <<>>]

SequentialReaderFromExt(shp, dbf) ==
    [shp |-> shp, dbf |-> dbf, n |-> 0, eof |-> FALSE, err |-> Nil]

\* What the streams deliver on the next read.
ReadOutcomes == {"record", "eof", "fault"}

\* sr.Next(): false at end of stream and after a decode fault.
srNext(sr, outcome) ==
    IF sr.err # Nil \/ sr.eof THEN [sr |-> sr, ok |-> FALSE]
    ELSE IF outcome = "record" THEN [sr |-> [sr EXCEPT !.n = @ + 1], ok |-> TRUE]
    ELSE IF outcome = "fault" THEN [sr |-> [sr EXCEPT !.err = ErrDecode], ok |-> FALSE]
    ELSE [sr |-> [sr EXCEPT !.eof = TRUE], ok |-> FALSE]

\* sr.Err()
srErr(sr) == sr.err

\* sr.Close(): Close is called on both wrapped streams.
srClose(sr, hs) ==
    [h \in DOMAIN hs |->
        IF h = sr.shp \/ (sr.dbf # NoHandle /\ h = sr.dbf)
        THEN [hs[h] EXCEPT !.closes = @ + 1]
        ELSE hs[h]]

(***************************************************************************)
(* The facade.                                                             *)
(***************************************************************************)
\* What a call returns, before the fields the call sets.
Ret(op) ==
    [op |-> op, path |-> "", stream |-> "", name |-> <<>>,
     err |-> Nil,            \* the error returned
     zr |-> 0,               \* the facade returned, or the receiver
     names |-> <<>>,         \* ShapesInZip's result
     ok |-> FALSE,           \* Next's result
     sawFalseBefore |-> FALSE, \* Next, Err: Next had returned false before
     opened |-> {},          \* the handles the call opened
     closesBefore |-> 0,     \* Close: the Close calls made before this one
     srErr |-> Nil,          \* Close: what zr.sr.Close() returned
     fileErr |-> Nil,        \* Close: what zr.file.Close() returned
     fileClosed |-> FALSE]   \* Close: whether zr.file.Close() was called

Init ==
    /\ archive \in Archives
    /\ handles = <<>>
    /\ facades = <<>>
    /\ history = <<>>
    /\ ret = Ret("init")

\* The number of Close calls made on facade f.
Closes(f) == handles[facades[f].sr.shp].closes

\* The rest of an open call once the container is at hand: r is what entry
\* resolution returned, owns whether the call opened a container handle.
Construct(call, owns, r) ==
    LET base == Len(handles)
        container == IF owns THEN <<ContainerHandle>> ELSE <<>>
        file == IF owns THEN base + 1 ELSE NoHandle
        first == base + Len(container) + 1
    IN  IF r.err # Nil
        THEN /\ handles' = handles \o container
             /\ UNCHANGED <<facades, history>>
             /\ ret' = [call EXCEPT !.err = r.err,
                                    !.opened = (base + 1)..(base + Len(container))]
        ELSE LET streams == <<StreamHandle(r.shp)>> \o
                            (IF r.dbf # NoHandle THEN <<StreamHandle(r.dbf)>> ELSE <<>>)
                 dbf == IF r.dbf # NoHandle THEN first + 1 ELSE NoHandle
             IN  /\ handles' = handles \o container \o streams
                 /\ facades' = Append(facades,
                        [z |-> archive, file |-> file,
                         sr |-> SequentialReaderFromExt(first, dbf)])
                 /\ history' = Append(history, [via |-> call.op, sawFalse |-> FALSE])
                 /\ ret' = [call EXCEPT !.zr = Len(facades) + 1,
                                        !.opened = (base + 1)..(base + Len(container) + Len(streams))]

CanOpen == NumContainers < MaxOpens /\ Len(facades) < MaxOpens

\* OpenZip(zipFilePath)
OpenZip(path) ==
    /\ CanOpen
    /\ IF ~Opens(path)
       THEN /\ ret' = [Ret("OpenZip") EXCEPT !.path = path, !.err = ErrContainerOpen]
            /\ UNCHANGED <<handles, facades, history>>
       ELSE Construct([Ret("OpenZip") EXCEPT !.path = path], TRUE,
                      loadSHPAndMaybeDBF(archive))
    /\ UNCHANGED archive

\* OpenZipReader(zipFileStream)
OpenZipReader(stream) ==
    /\ CanOpen
    /\ IF stream = "unreadable"
       THEN /\ ret' = [Ret("OpenZipReader") EXCEPT !.stream = stream, !.err = ErrStreamRead]
            /\ UNCHANGED <<handles, facades, history>>
       ELSE IF stream = "garbage"
       THEN /\ ret' = [Ret("OpenZipReader") EXCEPT !.stream = stream, !.err = ErrContainerOpen]
            /\ UNCHANGED <<handles, facades, history>>
       ELSE Construct([Ret("OpenZipReader") EXCEPT !.stream = stream], FALSE,
                      loadSHPAndMaybeDBF(archive))
    /\ UNCHANGED archive

\* ShapesInZip(zipFilePath)
ShapesInZip(path) ==
    /\ CanOpen
    /\ IF ~Opens(path)
       THEN /\ ret' = [Ret("ShapesInZip") EXCEPT !.path = path, !.err = ErrContainerOpen]
            /\ UNCHANGED handles
       ELSE LET shapeFiles == shapesInZip(archive)
            IN  /\ handles' = Append(handles, ContainerHandle)
                /\ ret' = [Ret("ShapesInZip") EXCEPT
                              !.path = path,
                              !.names = [i \in 1..Len(shapeFiles) |-> archive[shapeFiles[i]].Name],
                              !.opened = {Len(handles) + 1}]
    /\ UNCHANGED <<archive, facades, history>>

\* OpenShapeFromZip(zipFilePath, name)
OpenShapeFromZip(path, name) ==
    /\ CanOpen
    /\ IF ~Opens(path)
       THEN /\ ret' = [Ret("OpenShapeFromZip") EXCEPT
                          !.path = path, !.name = name, !.err = ErrContainerOpen]
            /\ UNCHANGED <<handles, facades, history>>
       ELSE Construct([Ret("OpenShapeFromZip") EXCEPT !.path = path, !.name = name],
                      TRUE, openNamed(archive, name))
    /\ UNCHANGED archive

\* Close returning at the first failure: the container is closed only if
\* the Sequential Reader's Close succeeded.
ClosesFileUnlessSrFailed(zr, srError) == zr.file # NoHandle /\ srError = Nil

\* Whether Close calls zr.file.Close(), given what zr.sr.Close() returned.
ClosesFile(zr, srError) == zr.file # NoHandle

\* The string s that Close builds from the two errors.
CloseMessage(srError, fileError) ==
    (IF srError # Nil THEN srError.text \o <<".", " ">> ELSE <<>>)
    \o (IF fileError # Nil THEN fileError.text \o <<".", " ">> ELSE <<>>)

\* The error Close returns for s.
CloseError(s) == IF s # <<>> THEN Errorf(s) ELSE Nil

\* zr.Close(); srOutcome and fileOutcome are what the two Close calls return
\* (closing a container handle that is closed already returns os.ErrClosed).
Close(f, srOutcome, fileOutcome) ==
    /\ f \in DOMAIN facades
    /\ Closes(f) < MaxCloses
    /\ LET zr == facades[f]
           afterSr == srClose(zr.sr, handles)
           closesFile == ClosesFile(zr, srOutcome)
           fileError == IF ~closesFile THEN Nil
                        ELSE IF handles[zr.file].closes > 0 THEN ErrClosed
                        ELSE fileOutcome
       IN  /\ handles' = IF closesFile
                         THEN [afterSr EXCEPT ![zr.file].closes = @ + 1]
                         ELSE afterSr
           /\ ret' = [Ret("Close") EXCEPT
                         !.zr = f,
                         !.closesBefore = Closes(f),
                         !.srErr = srOutcome,
                         !.fileErr = fileError,
                         !.fileClosed = closesFile,
                         !.err = CloseError(CloseMessage(srOutcome, fileError))]
    /\ UNCHANGED <<archive, facades, history>>

\* zr.Next() with state of its own: it rewinds the reader's end and error
\* marks after forwarding, so that the next call reads again.
zrNextRetrying(zr, outcome) ==
    LET r == srNext(zr.sr, outcome)
    IN  [zr |-> [zr EXCEPT !.sr = [r.sr EXCEPT !.eof = FALSE, !.err = Nil]],
         ok |-> r.ok]

\* zr.Next(): forwards to the Sequential Reader.
zrNext(zr, outcome) ==
    LET r == srNext(zr.sr, outcome)
    IN  [zr |-> [zr EXCEPT !.sr = r.sr], ok |-> r.ok]

\* zr.Err(): forwards to the Sequential Reader.
zrErr(zr) == srErr(zr.sr)

Next(f, outcome) ==
    /\ f \in DOMAIN facades
    /\ Closes(f) = 0
    /\ outcome = "record" => facades[f].sr.n < MaxRecords
    /\ LET r == zrNext(facades[f], outcome)
       IN  /\ facades' = [facades EXCEPT ![f] = r.zr]
           /\ history' = [history EXCEPT ![f].sawFalse = @ \/ ~r.ok]
           /\ ret' = [Ret("Next") EXCEPT !.zr = f, !.ok = r.ok,
                                          !.sawFalseBefore = history[f].sawFalse]
    /\ UNCHANGED <<archive, handles>>

Err(f) ==
    /\ f \in DOMAIN facades
    /\ Closes(f) = 0
    /\ ret' = [Ret("Err") EXCEPT !.zr = f, !.err = zrErr(facades[f]),
                                  !.sawFalseBefore = history[f].sawFalse]
    /\ UNCHANGED <<archive, handles, facades, history>>

\* The calls that open, list and release.
Step ==
    \/ \E path \in Paths : OpenZip(path)
    \/ \E stream \in Streams : OpenZipReader(stream)
    \/ \E path \in Paths : ShapesInZip(path)
    \/ \E path \in Paths, name \in RequestNames : OpenShapeFromZip(path, name)
    \/ \E f \in 1..MaxOpens, srOutcome \in SRCloseOutcomes,
          fileOutcome \in FileCloseOutcomes : Close(f, srOutcome, fileOutcome)

Spec == Init /\ [][Step]_vars

\* The calls that open, and the cursor protocol on the facades they return.
CursorStep ==
    \/ \E path \in Paths : OpenZip(path)
    \/ \E stream \in Streams : OpenZipReader(stream)
    \/ \E path \in Paths, name \in RequestNames : OpenShapeFromZip(path, name)
    \/ \E f \in 1..MaxOpens, outcome \in ReadOutcomes : Next(f, outcome)
    \/ \E f \in 1..MaxOpens : Err(f)

SpecCursor == Init /\ [][CursorStep]_vars


(***************************************************************************)
(* Vocabulary of the properties.                                           *)
(***************************************************************************)
AutoOps == {"OpenZip", "OpenZipReader"}
OpenOps == AutoOps \cup {"OpenShapeFromZip"}
OwningOps == {"OpenZip", "OpenShapeFromZip"}

\* The last call got hold of the archive.
ContainerOpened == ret.path = GoodPath \/ ret.stream = "zip"

\* The entries whose name ends in ".shp", and those called name.
ShpEntries == {i \in DOMAIN archive : HasSuffix(archive[i].Name, ShpExt)}
Named(name) == {i \in DOMAIN archive : archive[i].Name = name}

\* The entry streams the last call opened.
OpenedStreams == {h \in ret.opened : handles[h].kind = "stream"}

\* The last call returned an error and no facade, and opened no entry.
FailedWith(e) == ret.err = e /\ ret.zr = 0 /\ OpenedStreams = {}

\* The entry the last open call resolves as its primary, 0 if none.
PrimaryEntry ==
    IF ret.op \in AutoOps
    THEN IF Cardinality(ShpEntries) = 1 THEN Min(ShpEntries) ELSE 0
    ELSE IF Named(ret.name) # {} THEN Min(Named(ret.name)) ELSE 0

\* The name of the companion of the last open call's primary.
CompanionName ==
    IF ret.op \in AutoOps
    THEN TrimSuffix(archive[PrimaryEntry].Name, ShpExt) \o DbfExt
    ELSE TrimSuffix(ret.name, Ext(ret.name)) \o DbfExt

\* An entry called name exists and opens.
Usable(name) == Named(name) # {} /\ archive[Min(Named(name))].ok

\* The entries facade f reads as geometry and as attributes.
ShpEntryOf(f) == handles[facades[f].sr.shp].entry
DbfEntryOf(f) == handles[facades[f].sr.dbf].entry
HasDbf(f) == facades[f].sr.dbf # NoHandle

(***************************************************************************)
(* C1.  Close on a facade that owns its container calls both the           *)
(* Sequential Reader's Close and the container's Close, returns nil only   *)
(* if both returned nil, and when both fail returns an error whose text    *)
(* contains both messages.                                                 *)
(***************************************************************************)
C1_CloseAggregatesBoth ==
    (ret.op = "Close" /\ history[ret.zr].via \in OwningOps) =>
        /\ ret.fileClosed
        /\ (ret.err = Nil) <=> (ret.srErr = Nil /\ ret.fileErr = Nil)
        /\ (ret.srErr # Nil /\ ret.fileErr # Nil) =>
               /\ Contains(ret.err.text, ret.srErr.text)
               /\ Contains(ret.err.text, ret.fileErr.text)

(***************************************************************************)
(* C2.  Once every returned facade has been closed, every handle that was  *)
(* opened has had Close called on it exactly once.                         *)
(***************************************************************************)
C2_HandlesReleasedOnce ==
    (\A f \in DOMAIN facades : Closes(f) >= 1) =>
        \A h \in DOMAIN handles : handles[h].closes = 1

(***************************************************************************)
(* C3.  On an archive with exactly one entry ending in ".shp", OpenZip     *)
(* returns a facade and ShapesInZip returns exactly that entry's name.     *)
(***************************************************************************)
C3_OneShpOpens ==
    (ret.path = GoodPath /\ Cardinality(ShpEntries) = 1) =>
        /\ ret.op = "OpenZip" => (ret.err = Nil /\ ret.zr \in DOMAIN facades)
        /\ ret.op = "ShapesInZip" =>
               (ret.err = Nil /\ ret.names = <<archive[Min(ShpEntries)].Name>>)

\* C3 as amended: on an archive with exactly one entry ending in ".shp",
\* OpenZip returns a facade if that entry opens, and the fault of opening
\* it if not; ShapesInZip returns exactly that entry's name.
C3_OneShpOpensIfReadable ==
    (ret.path = GoodPath /\ Cardinality(ShpEntries) = 1) =>
        /\ ret.op = "OpenZip" =>
               IF archive[Min(ShpEntries)].ok
               THEN /\ ret.err = Nil
                    /\ ret.zr \in DOMAIN facades
                    /\ ShpEntryOf(ret.zr) = Min(ShpEntries)
               ELSE FailedWith(ErrEntryOpen)
        /\ ret.op = "ShapesInZip" =>
               (ret.err = Nil /\ ret.names = <<archive[Min(ShpEntries)].Name>>)

C3_Witness ==
    /\ ret.op = "OpenZip"
    /\ Cardinality(ShpEntries) = 1
    /\ Len(archive) = MaxEntries
    /\ ret.err = Nil
    /\ ret.zr \in DOMAIN facades

(***************************************************************************)
(* C4.  On an archive with no entry ending in ".shp", OpenZip and          *)
(* OpenZipReader fail with the not-found error; with two or more they fail *)
(* with the ambiguous-entry error; no facade is returned and no entry is   *)
(* opened.                                                                 *)
(***************************************************************************)
C4_AutoDiscoveryFails ==
    (ret.op \in AutoOps /\ ContainerOpened) =>
        /\ Cardinality(ShpEntries) = 0 => FailedWith(ErrNoShp)
        /\ Cardinality(ShpEntries) >= 2 => FailedWith(ErrMultipleShp)

C4_Witness ==
    /\ ret.op = "OpenZipReader"
    /\ ContainerOpened
    /\ Cardinality(ShpEntries) >= 2
    /\ ret.err = ErrMultipleShp

(***************************************************************************)
(* C5.  A second Close on a facade returns no error and calls Close on no  *)
(* handle again.                                                           *)
(***************************************************************************)
C5_SecondCloseIsNoOp ==
    (ret.op = "Close" /\ ret.closesBefore >= 1) =>
        /\ ret.err = Nil
        /\ handles[facades[ret.zr].sr.shp].closes = ret.closesBefore
        /\ ~ret.fileClosed

(***************************************************************************)
(* C6.  Whenever the primary entry resolves and opens, the open call       *)
(* returns a facade over it, and the Sequential Reader has no companion    *)
(* when the derived companion entry is missing or fails to open.           *)
(***************************************************************************)
C6_CompanionIsOptional ==
    (/\ ret.op \in OpenOps
     /\ ContainerOpened
     /\ PrimaryEntry # 0
     /\ archive[PrimaryEntry].ok) =>
        /\ ret.err = Nil
        /\ ret.zr \in DOMAIN facades
        /\ ShpEntryOf(ret.zr) = PrimaryEntry
        /\ ~Usable(CompanionName) => ~HasDbf(ret.zr)

C6_Witness ==
    /\ ret.op \in OpenOps
    /\ ret.err = Nil
    /\ ret.zr \in DOMAIN facades
    /\ Named(CompanionName) # {}
    /\ ~Usable(CompanionName)
    /\ ~HasDbf(ret.zr)

(***************************************************************************)
(* C7.  A facade built by OpenZipReader holds no container handle and its  *)
(* Close closes none; a facade built by OpenZip or OpenShapeFromZip closes *)
(* the container handle it opened in every Close; no other container       *)
(* handle is ever closed.                                                  *)
(***************************************************************************)
C7_CloseOwnership ==
    /\ \A f \in DOMAIN facades :
           (history[f].via = "OpenZipReader") <=> (facades[f].file = NoHandle)
    /\ ret.op = "Close" =>
           (ret.fileClosed <=> history[ret.zr].via \in OwningOps)
    /\ \A h \in DOMAIN handles :
           handles[h].kind = "container" =>
               LET owners == {f \in DOMAIN facades : facades[f].file = h}
               IN  IF owners = {} THEN handles[h].closes = 0
                   ELSE \A f \in owners : handles[h].closes = Closes(f)

C7_Witness ==
    /\ ret.op = "Close"
    /\ history[ret.zr].via = "OpenZipReader"
    /\ ~ret.fileClosed
    /\ Closes(ret.zr) = 1

(***************************************************************************)
(* C8.  OpenShapeFromZip(path, name) fails with the not-found error, with  *)
(* no facade, when no entry is called exactly name; when one is, the       *)
(* entry it opens as primary is the first entry called name, whatever its  *)
(* extension (and if that entry fails to open, that fault is returned).    *)
(***************************************************************************)
C8_ExactNameLookup ==
    (ret.op = "OpenShapeFromZip" /\ ContainerOpened) =>
        IF Named(ret.name) = {} THEN FailedWith(ErrNoSuchFile(ret.name))
        ELSE IF archive[Min(Named(ret.name))].ok
        THEN /\ ret.err = Nil
             /\ ret.zr \in DOMAIN facades
             /\ ShpEntryOf(ret.zr) = Min(Named(ret.name))
        ELSE FailedWith(ErrEntryOpen)

C8_Witness ==
    /\ ret.op = "OpenShapeFromZip"
    /\ ContainerOpened
    /\ Named(ret.name) = {}
    /\ \E i \in DOMAIN archive : HasSuffix(archive[i].Name, ret.name)
    /\ ret.err = ErrNoSuchFile(ret.name)

(***************************************************************************)
(* C9.  Once Next has returned false on a facade, every later Next on it   *)
(* returns false, Err keeps returning what it returned then, and nothing   *)
(* of the facade but its Sequential Reader ever changes.                   *)
(***************************************************************************)
C9_ExhaustionIsIdempotent ==
    [][\A f \in DOMAIN facades :
           /\ facades'[f].file = facades[f].file
           /\ facades'[f].z = facades[f].z
           /\ history[f].sawFalse =>
                  /\ zrErr(facades'[f]) = zrErr(facades[f])
                  /\ (ret'.op = "Next" /\ ret'.zr = f) => ~ret'.ok
                  /\ (ret'.op = "Err" /\ ret'.zr = f) => ret'.err = zrErr(facades[f])
      ]_vars

C9_Witness ==
    /\ ret.op = "Next"
    /\ ~ret.ok
    /\ ret.sawFalseBefore

(***************************************************************************)
(* C10.  In every facade the companion stream is absent or reads another   *)
(* entry than the primary, and the companion name derived from an accepted *)
(* primary name differs from it.                                           *)
(***************************************************************************)
C10_CompanionDiffers ==
    /\ \A f \in DOMAIN facades : HasDbf(f) => DbfEntryOf(f) # ShpEntryOf(f)
    /\ (ret.op \in OpenOps /\ ret.err = Nil) =>
           CompanionName # archive[ShpEntryOf(ret.zr)].Name

\* C10 as amended: the companion stream is absent or reads the first entry
\* called by the derived companion name (the primary's name with its
\* extension replaced by ".dbf"), and is present whenever that entry opens.
\* That entry is another entry than the primary unless the primary's name
\* has the extension ".dbf", which only OpenShapeFromZip accepts: then the
\* derived name is the primary's name and the companion reads the same
\* entry as the primary.
C10_CompanionDiffersUnlessDbf ==
    \A f \in DOMAIN facades :
        LET name == archive[ShpEntryOf(f)].Name
            companion == TrimSuffix(name, Ext(name)) \o DbfExt
        IN  /\ HasDbf(f) <=> Usable(companion)
            /\ HasDbf(f) => DbfEntryOf(f) = Min(Named(companion))
            /\ (companion = name) <=> (Ext(name) = DbfExt)
            /\ HasDbf(f) => ((DbfEntryOf(f) = ShpEntryOf(f)) <=> (Ext(name) = DbfExt))
            /\ Ext(name) = DbfExt => history[f].via = "OpenShapeFromZip"

C10_Witness ==
    /\ ret.op = "OpenShapeFromZip"
    /\ ret.err = Nil
    /\ HasDbf(ret.zr)
    /\ DbfEntryOf(ret.zr) # ShpEntryOf(ret.zr)
    /\ Ext(ret.name) = ShpExt

====
